---- MODULE Spec2Model ----
(***************************************************************************)
(* The checkbox (multi-select) prompt of questionary/prompts/checkbox.py   *)
(* as a state machine over key events.  One action per key binding; the    *)
(* state is the InquirerControl instance `ic` the bindings close over, the *)
(* prompt_toolkit Application's exit status, and the argument of the last  *)
(* call of the user's validator.                                           *)
(*                                                                         *)
(* InquirerControl lives in questionary/prompts/common.py; its methods     *)
(* (get_pointed_at, select_next, select_previous, is_selection_valid,      *)
(* get_selected_values) and its constructor are modelled from the          *)
(* specification's sections 3, 4.1 and 4.2.                                *)
(***************************************************************************)
EXTENDS Integers, Sequences, FiniteSets, TLC

\* longest choice list the model enumerates
MaxLen == 3

\* longest choice list whose titles are enumerated, for the renderer
MaxRenderLen == 2

\* single cursor steps after which the model stops following a loop
MaxSteps == 6

VARIABLES
    choices,               \* ic.choices: sequence of Choice / Separator entries
    validate,              \* the caller's validate callable (one of Validators)
    pointed_at,            \* ic.pointed_at: index into choices
    selected_options,      \* ic.selected_options: list of selected values
    error_message,         \* ic.error_message: None or FormattedText
    submission_attempted,  \* ic.submission_attempted
    is_answered,           \* ic.is_answered
    app_exit,              \* Application: "running", "result" or "KeyboardInterrupt"
    app_result,            \* Application: the value given to exit(result=...)
    key,                   \* the last key event the dispatcher delivered
    validate_arg,          \* the validator call made for that event, if any
    tokens,                \* the last output of get_prompt_tokens, if any
    loop                   \* the cursor loop in progress: handler, start, steps

vars == <<choices, validate, pointed_at, selected_options, error_message,
          submission_attempted, is_answered, app_exit, app_result, key,
          validate_arg, tokens, loop>>

ic == <<pointed_at, selected_options, error_message, submission_attempted, is_answered>>

-----------------------------------------------------------------------------
(* Values of the data model *)

\* Python's None, for error_message and for a validator that was not called
None == <<>>

\* the value of a Separator (None in Python); Choice values are 1..MaxLen
SeparatorValue == 0

\* the value of the entry at list position i: distinct per Choice
ValueAt(i) == i

\* a title is plain text ("str") or a list of styled spans ("list")
Separator ==
    [kind |-> "Separator", disabled |-> FALSE, checked |-> FALSE, title |-> "str"]

\* the entries a caller can put in a list: a Separator, or a Choice that is
\* enabled or disabled and pre-checked or not.  Titles are read by
\* get_prompt_tokens only; they are plain here and of both kinds in
\* TitledEntries.
Entries ==
    {Separator} \cup
    [kind : {"Choice"}, disabled : BOOLEAN, checked : BOOLEAN, title : {"str"}]

TitledEntries ==
    {Separator} \cup
    [kind : {"Choice"}, disabled : BOOLEAN, checked : BOOLEAN, title : {"str", "list"}]

value(i) == IF choices[i].kind = "Separator" THEN SeparatorValue ELSE ValueAt(i)

isinstance_Separator(i) == choices[i].kind = "Separator"

choice_count == Len(choices)

\* an enabled, non-separator Choice
Selectable(i) == ~isinstance_Separator(i) /\ ~choices[i].disabled

SelectableValues == {value(i) : i \in {j \in 1..choice_count : Selectable(j)}}

-----------------------------------------------------------------------------
(* Lists *)

Contains(s, v) == \E k \in 1..Len(s) : s[k] = v

Range(s) == {s[k] : k \in 1..Len(s)}

\* list.remove(v): drops the first occurrence of v
RECURSIVE ListRemove(_, _)
ListRemove(s, v) ==
    IF s = <<>> THEN <<>>
    ELSE IF Head(s) = v THEN Tail(s)
    ELSE <<Head(s)>> \o ListRemove(Tail(s), v)

-----------------------------------------------------------------------------
(* The validator and perform_validation *)

INVALID_INPUT == "Invalid input"

PyTrue == <<"bool", "True">>
PyFalse == <<"bool", "False">>

Validators == {"accept", "nonempty", "at_least_two", "count"}

\* validate(selected_values): the verdict of the caller's callable.
\*   accept        lambda a: True (the default)
\*   nonempty      lambda a: len(a) > 0
\*   at_least_two  lambda a: True if len(a) >= 2 else "Pick at least two"
\*   count         lambda a: len(a)   (an int, never the object True)
Verdict(v, selected_values) ==
    CASE v = "accept" -> PyTrue
      [] v = "nonempty" -> IF Len(selected_values) > 0 THEN PyTrue ELSE PyFalse
      [] v = "at_least_two" ->
            IF Len(selected_values) >= 2 THEN PyTrue
            ELSE <<"str", "Pick at least two">>
      [] v = "count" -> <<"int", ToString(Len(selected_values))>>

\* valid as the truthiness of the verdict ("if verdict:")
valid_truthy(verdict) ==
    \/ verdict = PyTrue
    \/ verdict[1] = "str" /\ verdict[2] /= ""
    \/ verdict[1] = "int" /\ verdict[2] /= "0"

\* verdict is True
valid(verdict) == verdict = PyTrue

\* error_text with str(verdict) in every case
error_text_str(verdict) == verdict[2]

\* the text of a failing verdict
error_text(verdict) == IF verdict = PyFalse THEN INVALID_INPUT ELSE verdict[2]

FormattedText(text) == <<"class:validation-toolbar", text>>

\* new_error_message without the submission_attempted gate
new_error_message_ungated(verdict, attempted) ==
    IF ~valid(verdict) THEN FormattedText(error_text(verdict)) ELSE None

\* the value perform_validation assigns to ic.error_message
new_error_message(verdict, attempted) ==
    IF ~valid(verdict) /\ attempted THEN FormattedText(error_text(verdict)) ELSE None

-----------------------------------------------------------------------------
(* InquirerControl *)

\* ic.get_selected_values() in list order
ic_get_selected_values_list_order(sel) ==
    LET RECURSIVE from(_)
        from(i) == IF i > choice_count THEN <<>>
                   ELSE IF ~isinstance_Separator(i) /\ Contains(sel, value(i))
                        THEN <<i>> \o from(i + 1)
                        ELSE from(i + 1)
    IN from(1)

\* ic.get_selected_values(): the Choice (its list position) of every selected
\* value, in the order of the selection
ic_get_selected_values(sel) ==
    [k \in 1..Len(sel) |-> CHOOSE i \in 1..choice_count : value(i) = sel[k]]

\* get_selected_values(): [c.value for c in ic.get_selected_values()]
get_selected_values(sel) ==
    LET cs == ic_get_selected_values(sel) IN [k \in 1..Len(cs) |-> value(cs[k])]

select_next(p) == (p % choice_count) + 1

select_previous(p) == ((p - 2) % choice_count) + 1

is_selection_valid(p) == Selectable(p)

-----------------------------------------------------------------------------
(* The selection computed by each binding *)

\* toggle_selection that inserts a new value at the front
toggle_prepend(sel, v) ==
    IF Contains(sel, v) THEN ListRemove(sel, v) ELSE <<v>> \o sel

\* toggle_selection that appends without looking
toggle_always_append(sel, v) == Append(sel, v)

\* toggle: remove the pointed value if selected, append it otherwise
toggle_selection(sel, v) ==
    IF Contains(sel, v) THEN ListRemove(sel, v) ELSE Append(sel, v)

\* invert: the values of the enabled choices that are not selected, in list order
RECURSIVE inverted_from(_, _)
inverted_from(i, sel) ==
    IF i > choice_count THEN <<>>
    ELSE IF ~isinstance_Separator(i) /\ ~Contains(sel, value(i)) /\ ~choices[i].disabled
         THEN <<value(i)>> \o inverted_from(i + 1, sel)
         ELSE inverted_from(i + 1, sel)

\* inverted_selection without "and not c.disabled"
RECURSIVE inverted_with_disabled_from(_, _)
inverted_with_disabled_from(i, sel) ==
    IF i > choice_count THEN <<>>
    ELSE IF ~isinstance_Separator(i) /\ ~Contains(sel, value(i))
         THEN <<value(i)>> \o inverted_with_disabled_from(i + 1, sel)
         ELSE inverted_with_disabled_from(i + 1, sel)

inverted_with_disabled(sel) == inverted_with_disabled_from(1, sel)

\* inverted_selection without "and c.value not in ic.selected_options"
inverted_ignoring_selection(sel) == inverted_from(1, <<>>)

inverted_selection(sel) == inverted_from(1, sel)

\* all: the loop appending the missing enabled choices; all_selected stays
\* true when nothing was appended
RECURSIVE all_loop(_, _)
all_loop(i, sel) ==
    IF i > choice_count THEN sel
    ELSE IF ~isinstance_Separator(i) /\ ~Contains(sel, value(i)) /\ ~choices[i].disabled
         THEN all_loop(i + 1, Append(sel, value(i)))
         ELSE all_loop(i + 1, sel)

\* all_selection without the "if all_selected" reset
all_never_clears(sel) == all_loop(1, sel)

all_selection(sel) ==
    LET added == all_loop(1, sel)
        all_selected == added = sel
    IN IF all_selected THEN <<>> ELSE added

\* move_cursor_down / move_cursor_up: one step, then repeated while the
\* landed-on entry is not selectable
\* skip_down without the while loop
skip_down_once(p) == p

RECURSIVE skip_down(_)
skip_down(p) == IF is_selection_valid(p) THEN p ELSE skip_down(select_next(p))

RECURSIVE skip_up(_)
skip_up(p) == IF is_selection_valid(p) THEN p ELSE skip_up(select_previous(p))

cursor_down(p) == skip_down(select_next(p))

cursor_up(p) == skip_up(select_previous(p))

-----------------------------------------------------------------------------
(* Construction *)

\* no move_cursor_down / move_cursor_up is in progress
NoLoop == [handler |-> "idle", start |-> 0, steps |-> 0]

\* the checked choices' values in list order
RECURSIVE checked_from(_, _)
checked_from(ch, i) ==
    IF i > Len(ch) THEN <<>>
    ELSE IF ch[i].kind = "Choice" /\ ch[i].checked
         THEN <<ValueAt(i)>> \o checked_from(ch, i + 1)
         ELSE checked_from(ch, i + 1)

\* A `default` value selects the choice it names exactly as checked=True
\* does, so the initial selections below cover it.  initial_choice names any
\* selectable item; without it the cursor starts at the first enabled one,
\* which is among the positions enumerated.
Init ==
    /\ \E n \in 1..MaxLen : \E ch \in [1..n -> Entries] :
          /\ \E i \in 1..n : ch[i].kind = "Choice" /\ ~ch[i].disabled
          /\ choices = ch
          /\ selected_options = checked_from(ch, 1)
          /\ pointed_at \in {i \in 1..n : ch[i].kind = "Choice" /\ ~ch[i].disabled}
    /\ validate \in Validators
    /\ error_message = None
    /\ submission_attempted = FALSE
    /\ is_answered = FALSE
    /\ app_exit = "running"
    /\ app_result = None
    /\ key = "none"
    /\ validate_arg = None
    /\ tokens = None
    /\ loop = NoLoop

-----------------------------------------------------------------------------
(* Key bindings.  Keys are named by the binding that handles them: ControlC *)
(* stands for Ctrl-Q and Ctrl-C, Down for Down and "j", Up for Up and "k",  *)
(* ControlM for Enter, Any for every unbound key.                           *)

Active == app_exit = "running"

\* perform_validation that records a failure and never clears one
perform_validation_sticky(values) ==
    /\ validate_arg' = <<values>>
    /\ error_message' =
          IF valid(Verdict(validate, values)) THEN error_message
          ELSE new_error_message(Verdict(validate, values), submission_attempted')

\* perform_validation(values) as the tail of a handler that leaves
\* submission_attempted as it is
perform_validation(values) ==
    /\ validate_arg' = <<values>>
    /\ error_message' =
          new_error_message(Verdict(validate, values), submission_attempted')

\* abort routed through validation, exiting with the selection when it passes
abort_validating ==
    /\ Active
    /\ UNCHANGED <<tokens, loop>>
    /\ key' = "ControlC"
    /\ UNCHANGED submission_attempted
    /\ LET selected_values == get_selected_values(selected_options) IN
          /\ perform_validation(selected_values)
          /\ IF valid(Verdict(validate, selected_values))
             THEN app_exit' = "result" /\ app_result' = selected_values
             ELSE app_exit' = "KeyboardInterrupt" /\ app_result' = None
    /\ UNCHANGED <<choices, validate, pointed_at, selected_options, is_answered>>

\* abort that reports the session as answered
abort_answered ==
    /\ Active
    /\ UNCHANGED <<tokens, loop>>
    /\ key' = "ControlC"
    /\ app_exit' = "KeyboardInterrupt"
    /\ is_answered' = TRUE
    /\ validate_arg' = None
    /\ UNCHANGED <<choices, validate, pointed_at, selected_options, error_message,
                   submission_attempted, app_result>>

\* Ctrl-Q / Ctrl-C
abort ==
    /\ Active
    /\ UNCHANGED <<tokens, loop>>
    /\ key' = "ControlC"
    /\ app_exit' = "KeyboardInterrupt"
    /\ validate_arg' = None
    /\ UNCHANGED <<choices, validate, ic, app_result>>

\* space
toggle ==
    /\ Active
    /\ UNCHANGED <<tokens, loop>>
    /\ key' = "space"
    /\ LET pointed_choice == value(pointed_at) IN
          selected_options' = toggle_selection(selected_options, pointed_choice)
    /\ UNCHANGED submission_attempted
    /\ perform_validation(get_selected_values(selected_options'))
    /\ UNCHANGED <<choices, validate, pointed_at, is_answered, app_exit, app_result>>

\* "i"
invert ==
    /\ Active
    /\ UNCHANGED <<tokens, loop>>
    /\ key' = "i"
    /\ selected_options' = inverted_selection(selected_options)
    /\ UNCHANGED submission_attempted
    /\ perform_validation(get_selected_values(selected_options'))
    /\ UNCHANGED <<choices, validate, pointed_at, is_answered, app_exit, app_result>>

\* "a"
all ==
    /\ Active
    /\ UNCHANGED <<tokens, loop>>
    /\ key' = "a"
    /\ selected_options' = all_selection(selected_options)
    /\ UNCHANGED submission_attempted
    /\ perform_validation(get_selected_values(selected_options'))
    /\ UNCHANGED <<choices, validate, pointed_at, is_answered, app_exit, app_result>>

\* move_cursor_down that validates the selection after moving
move_cursor_down_validating ==
    /\ Active
    /\ UNCHANGED <<tokens, loop>>
    /\ key' = "Down"
    /\ pointed_at' = cursor_down(pointed_at)
    /\ UNCHANGED submission_attempted
    /\ perform_validation(get_selected_values(selected_options))
    /\ UNCHANGED <<choices, validate, selected_options, is_answered, app_exit,
                   app_result>>

\* Down / "j"
move_cursor_down ==
    /\ Active
    /\ UNCHANGED <<tokens, loop>>
    /\ key' = "Down"
    /\ pointed_at' = cursor_down(pointed_at)
    /\ validate_arg' = None
    /\ UNCHANGED <<choices, validate, selected_options, error_message,
                   submission_attempted, is_answered, app_exit, app_result>>

\* Up / "k"
move_cursor_up ==
    /\ Active
    /\ UNCHANGED <<tokens, loop>>
    /\ key' = "Up"
    /\ pointed_at' = cursor_up(pointed_at)
    /\ validate_arg' = None
    /\ UNCHANGED <<choices, validate, selected_options, error_message,
                   submission_attempted, is_answered, app_exit, app_result>>

\* answers that ignores perform_validation's result
answers_always(is_valid) == TRUE

\* whether set_answer answers the prompt, given perform_validation's result
answers(is_valid) == is_valid

\* the list set_answer hands to event.app.exit(result=...)
exit_result(selected_values) == selected_values

\* Enter
set_answer ==
    /\ Active
    /\ UNCHANGED <<tokens, loop>>
    /\ key' = "ControlM"
    /\ LET selected_values == get_selected_values(selected_options) IN
          /\ submission_attempted' = TRUE
          /\ perform_validation(selected_values)
          /\ IF answers(valid(Verdict(validate, selected_values)))
             THEN /\ is_answered' = TRUE
                  /\ app_exit' = "result"
                  /\ app_result' = exit_result(selected_values)
             ELSE UNCHANGED <<is_answered, app_exit, app_result>>
    /\ UNCHANGED <<choices, validate, pointed_at, selected_options>>

\* any other key
other ==
    /\ Active
    /\ UNCHANGED <<tokens, loop>>
    /\ key' = "Any"
    /\ validate_arg' = None
    /\ UNCHANGED <<choices, validate, ic, app_exit, app_result>>

Next ==
    \/ abort
    \/ toggle
    \/ invert
    \/ all
    \/ move_cursor_down
    \/ move_cursor_up
    \/ set_answer
    \/ other

Spec == Init /\ [][Next]_vars

-----------------------------------------------------------------------------
(* Construction as a step: checkbox(...) called with any validate argument  *)
(* and any non-empty choice list.                                           *)

\* the validate arguments a caller may pass: a callable, or something else
ValidateArguments == Validators \cup {"not_callable"}

\* callable that accepts every argument
callable_anything(v) == TRUE

\* callable(validate)
callable(v) == v \in Validators

\* InquirerControl(choices, ...) finds a choice to point at: some entry is an
\* enabled, non-separator Choice
ic_constructible(ch) ==
    \E i \in 1..Len(ch) : ch[i].kind = "Choice" /\ ~ch[i].disabled

InitConstruct ==
    /\ \E n \in 1..MaxLen : choices \in [1..n -> Entries]
    /\ validate \in ValidateArguments
    /\ pointed_at = 0
    /\ selected_options = <<>>
    /\ error_message = None
    /\ submission_attempted = FALSE
    /\ is_answered = FALSE
    /\ app_exit = "constructing"
    /\ app_result = None
    /\ key = "none"
    /\ validate_arg = None
    /\ tokens = None
    /\ loop = NoLoop

\* checkbox(message, choices, validate=..., initial_choice=...): raises
\* ValueError or returns the Question whose Application serves the bindings
checkbox ==
    /\ app_exit = "constructing"
    /\ IF ~callable(validate)
       THEN /\ app_exit' = "ValueError"
            /\ UNCHANGED <<pointed_at, selected_options>>
       ELSE IF ~ic_constructible(choices)
       THEN /\ app_exit' = "ValueError"
            /\ UNCHANGED <<pointed_at, selected_options>>
       ELSE /\ app_exit' = "running"
            /\ selected_options' = checked_from(choices, 1)
            /\ pointed_at' \in {i \in 1..Len(choices) :
                                  choices[i].kind = "Choice" /\ ~choices[i].disabled}
    /\ UNCHANGED <<choices, validate, error_message, submission_attempted,
                   is_answered, app_result, key, validate_arg, tokens, loop>>

NextConstruct ==
    \/ checkbox
    \/ Next

SpecConstruct == InitConstruct /\ [][NextConstruct]_vars

-----------------------------------------------------------------------------
(* move_cursor_down / move_cursor_up step by step, on any list and from any *)
(* cursor position: the first select_next / select_previous, then one more  *)
(* per turn of the while loop, until is_selection_valid().                  *)

InitLoop ==
    /\ \E n \in 1..MaxLen :
          /\ choices \in [1..n -> Entries]
          /\ pointed_at \in 1..n
    /\ selected_options = checked_from(choices, 1)
    /\ validate = "accept"
    /\ error_message = None
    /\ submission_attempted = FALSE
    /\ is_answered = FALSE
    /\ app_exit = "running"
    /\ app_result = None
    /\ key = "none"
    /\ validate_arg = None
    /\ tokens = None
    /\ loop = NoLoop

loop_frame ==
    UNCHANGED <<choices, validate, selected_options, error_message,
                submission_attempted, is_answered, app_exit, app_result,
                validate_arg, tokens>>

\* Down / "j" arrives: ic.select_next()
enter_down ==
    /\ Active
    /\ loop.handler = "idle"
    /\ key' = "Down"
    /\ pointed_at' = select_next(pointed_at)
    /\ loop' = [handler |-> "down", start |-> pointed_at, steps |-> 1]
    /\ loop_frame

\* while not ic.is_selection_valid(): ic.select_next()
step_down ==
    /\ loop.handler = "down"
    /\ ~is_selection_valid(pointed_at)
    /\ loop.steps < MaxSteps
    /\ pointed_at' = select_next(pointed_at)
    /\ loop' = [loop EXCEPT !.steps = @ + 1]
    /\ UNCHANGED key
    /\ loop_frame

\* exit_down that also gives up once every entry was visited
exit_down_bounded ==
    /\ loop.handler = "down"
    /\ is_selection_valid(pointed_at) \/ loop.steps >= choice_count
    /\ loop' = NoLoop
    /\ UNCHANGED <<pointed_at, key>>
    /\ loop_frame

\* the while condition fails: move_cursor_down returns
exit_down ==
    /\ loop.handler = "down"
    /\ is_selection_valid(pointed_at)
    /\ loop' = NoLoop
    /\ UNCHANGED <<pointed_at, key>>
    /\ loop_frame

\* Up / "k" arrives: ic.select_previous()
enter_up ==
    /\ Active
    /\ loop.handler = "idle"
    /\ key' = "Up"
    /\ pointed_at' = select_previous(pointed_at)
    /\ loop' = [handler |-> "up", start |-> pointed_at, steps |-> 1]
    /\ loop_frame

\* while not ic.is_selection_valid(): ic.select_previous()
step_up ==
    /\ loop.handler = "up"
    /\ ~is_selection_valid(pointed_at)
    /\ loop.steps < MaxSteps
    /\ pointed_at' = select_previous(pointed_at)
    /\ loop' = [loop EXCEPT !.steps = @ + 1]
    /\ UNCHANGED key
    /\ loop_frame

\* the while condition fails: move_cursor_up returns
exit_up ==
    /\ loop.handler = "up"
    /\ is_selection_valid(pointed_at)
    /\ loop' = NoLoop
    /\ UNCHANGED <<pointed_at, key>>
    /\ loop_frame

NextLoop ==
    \/ enter_down
    \/ step_down
    \/ exit_down
    \/ enter_up
    \/ step_up
    \/ exit_up

SpecLoop == InitLoop /\ [][NextLoop]_vars

-----------------------------------------------------------------------------
(* The prompt line.  A token is <<class, format, argument>>: the argument   *)
(* is the list position of the choice whose title fills the format, the     *)
(* number of selections, or 0 for a format without a field.                 *)

InstructionHint ==
    "(Use arrow keys to move, <space> to select, <a> to toggle, <i> to invert)"

prompt_head ==
    << <<"class:qmark", "{qmark}", 0>>, <<"class:question", " {message} ", 0>> >>

\* get_prompt_tokens without the isinstance(title, list) branch
get_prompt_tokens_bracketed ==
    IF is_answered
    THEN LET nbr_selected == Len(selected_options) IN
           IF nbr_selected = 0
           THEN Append(prompt_head, <<"class:answer", "done", 0>>)
           ELSE IF nbr_selected = 1
           THEN Append(prompt_head,
                       <<"class:answer", "[{}]", ic_get_selected_values(selected_options)[1]>>)
           ELSE Append(prompt_head, <<"class:answer", "done ({} selections)", nbr_selected>>)
    ELSE Append(prompt_head, <<"class:instruction", InstructionHint, 0>>)

get_prompt_tokens ==
    IF is_answered
    THEN LET nbr_selected == Len(selected_options) IN
           IF nbr_selected = 0
           THEN Append(prompt_head, <<"class:answer", "done", 0>>)
           ELSE IF nbr_selected = 1
           THEN LET c == ic_get_selected_values(selected_options)[1] IN
                  IF choices[c].title = "list"
                  THEN Append(prompt_head, <<"class:answer", "join(spans)", c>>)
                  ELSE Append(prompt_head, <<"class:answer", "[{}]", c>>)
           ELSE Append(prompt_head, <<"class:answer", "done ({} selections)", nbr_selected>>)
    ELSE Append(prompt_head, <<"class:instruction", InstructionHint, 0>>)

\* the layout calls get_prompt_tokens, while the prompt runs and for the
\* last repaint after it exited
render ==
    /\ app_exit \in {"running", "result", "KeyboardInterrupt"}
    /\ tokens' = get_prompt_tokens
    /\ UNCHANGED <<choices, validate, ic, app_exit, app_result, key, validate_arg,
                   loop>>

InitRender ==
    /\ \E n \in 1..MaxRenderLen : \E ch \in [1..n -> TitledEntries] :
          /\ ic_constructible(ch)
          /\ choices = ch
          /\ selected_options = checked_from(ch, 1)
          /\ pointed_at \in {i \in 1..n : ch[i].kind = "Choice" /\ ~ch[i].disabled}
    /\ validate \in Validators
    /\ error_message = None
    /\ submission_attempted = FALSE
    /\ is_answered = FALSE
    /\ app_exit = "running"
    /\ app_result = None
    /\ key = "none"
    /\ validate_arg = None
    /\ tokens = None
    /\ loop = NoLoop

NextRender ==
    \/ render
    \/ Next

SpecRender == InitRender /\ [][NextRender]_vars

-----------------------------------------------------------------------------
(* Properties *)

\* the verdict of the validator on the current selection
CurrentVerdict == Verdict(validate, get_selected_values(selected_options))

\* the list position of the Choice carrying value v
PositionOf(v) == CHOOSE i \in 1..choice_count : ~isinstance_Separator(i) /\ value(i) = v

\* s lists its values in the order of the choice list
InListOrder(s) == \A j, k \in 1..Len(s) : j < k => PositionOf(s[j]) < PositionOf(s[k])

\* the values of the enabled, non-separator choices outside the selection sel
Unselected(sel) == SelectableValues \ Range(sel)

\* C1: a confirm event on a selection the validator rejects (False or a
\* string) leaves the session running, unanswered and without a result;
\* is_answered turns true only in a confirm event whose verdict is True; and
\* such a confirm event answers and exits at once.
C1_SubmitBlockedUntilValid ==
    [][ /\ (Active /\ key' = "ControlM" /\ ~valid(CurrentVerdict))
            => (app_exit' = "running" /\ ~is_answered' /\ app_result' = None)
        /\ (~is_answered /\ is_answered')
            => (key' = "ControlM" /\ valid(CurrentVerdict))
        /\ (Active /\ key' = "ControlM" /\ valid(CurrentVerdict))
            => (is_answered' /\ app_exit' = "result")
      ]_vars

\* a confirm event was blocked by a string verdict
C1_Witness ==
    /\ key = "ControlM"
    /\ Active
    /\ ~is_answered
    /\ CurrentVerdict[1] = "str"

\* C2: the emitted result is the selection as a sequence, in insertion order.
C2_ResultIsSelection ==
    app_exit = "result" => app_result = selected_options

\* a result whose insertion order is not the list order
C2_Witness ==
    /\ app_exit = "result"
    /\ Len(app_result) >= 2
    /\ ~InListOrder(app_result)

\* C3: the cursor always rests on an enabled, non-separator Choice.
C3_CursorOnSelectable ==
    /\ pointed_at \in 1..choice_count
    /\ ~isinstance_Separator(pointed_at)
    /\ ~choices[pointed_at].disabled

\* a move from the only selectable entry, in the middle of the list, wrapped
\* around over a skippable entry on either side
C3_Witness ==
    /\ key \in {"Down", "Up"}
    /\ choice_count = 3
    /\ pointed_at = 2
    /\ isinstance_Separator(1)
    /\ choices[3].kind = "Choice" /\ choices[3].disabled

\* C4 as stated: toggling the pointed value twice restores the exact sequence.
C4_ToggleTwiceRestoresSequence ==
    Active =>
        LET v == value(pointed_at)
        IN toggle_selection(toggle_selection(selected_options, v), v) = selected_options

\* C4 amended: toggling the pointed value twice keeps the set of selected
\* values; the sequence is restored when the value was not selected or was
\* the last element, and otherwise the value moves to the end while the
\* others keep their order.
C4_ToggleTwice ==
    Active =>
        LET v == value(pointed_at)
            sel == selected_options
            twice == toggle_selection(toggle_selection(sel, v), v)
        IN /\ Range(twice) = Range(sel)
           /\ Len(twice) = Len(sel)
           /\ (~Contains(sel, v) \/ sel[Len(sel)] = v) => twice = sel
           /\ Contains(sel, v) => twice = SelectSeq(sel, LAMBDA x : x /= v) \o <<v>>

\* after toggles out of list order the cursor is back on the value toggled
\* first, which is selected ahead of another one
C4_Witness ==
    /\ Active
    /\ key \in {"Down", "Up"}
    /\ Len(selected_options) >= 2
    /\ ~InListOrder(selected_options)
    /\ selected_options[1] = value(pointed_at)

\* C5: invert replaces the selection by the values of the enabled,
\* non-separator choices that were not selected, in list order.
C5_InvertIsComplement ==
    [][ key' = "i" =>
            /\ Range(selected_options') = Unselected(selected_options)
            /\ Len(selected_options') = Cardinality(Unselected(selected_options))
            /\ InListOrder(selected_options')
      ]_vars

\* an inversion that dropped a selected value and left a disabled choice out
C5_Witness ==
    /\ key = "i"
    /\ selected_options /= <<>>
    /\ Unselected(selected_options) /= {}
    /\ \E i \in 1..choice_count : choices[i].kind = "Choice" /\ choices[i].disabled

\* C6: on a selection of selectable values only, two inversions give back the
\* same set of values.
C6_InvertTwiceSameSet ==
    (Active /\ Range(selected_options) \subseteq SelectableValues) =>
        Range(inverted_selection(inverted_selection(selected_options)))
            = Range(selected_options)

\* a selection of selectable values that two inversions give back reordered
C6_Witness ==
    /\ Active
    /\ Len(selected_options) >= 2
    /\ Range(selected_options) \subseteq SelectableValues
    /\ inverted_selection(inverted_selection(selected_options)) /= selected_options

\* C7: all clears the selection exactly when every enabled, non-separator
\* choice was selected; otherwise it keeps the selection as it is and appends
\* the missing enabled choices in list order.
C7_AllOrNone ==
    [][ key' = "a" =>
            LET sel == selected_options
                after == selected_options'
                rest == SubSeq(after, Len(sel) + 1, Len(after))
            IN /\ (after = <<>>) <=> (Unselected(sel) = {})
               /\ Unselected(sel) /= {} =>
                     /\ Len(after) = Len(sel) + Cardinality(Unselected(sel))
                     /\ SubSeq(after, 1, Len(sel)) = sel
                     /\ Range(rest) = Unselected(sel)
                     /\ InListOrder(rest)
      ]_vars

\* all has cleared a selection that held every one of several enabled choices
C7_Witness ==
    /\ key = "a"
    /\ selected_options = <<>>
    /\ Cardinality(SelectableValues) >= 2

\* C8: before the first confirm attempt no error text is handed to the toolbar.
C8_NoErrorBeforeSubmit ==
    ~submission_attempted => error_message = None

\* an edit left a selection the validator rejects, and nothing was submitted
C8_Witness ==
    /\ ~submission_attempted
    /\ key \in {"space", "i", "a"}
    /\ validate_arg = <<selected_options>>
    /\ ~valid(CurrentVerdict)

\* C9: a confirm event whose validation fails records the failure text and
\* the attempt, changes neither selection, cursor nor is_answered, and leaves
\* the session running; a running session with an attempt behind it takes
\* toggle, invert, select-all, move and confirm events, and its next confirm
\* on an accepted selection answers.
C9_FailedSubmitRecoverable ==
    /\ [][ /\ (Active /\ key' = "ControlM" /\ ~valid(CurrentVerdict)) =>
                 /\ error_message' =
                       <<"class:validation-toolbar",
                         IF CurrentVerdict = PyFalse THEN INVALID_INPUT
                         ELSE CurrentVerdict[2]>>
                 /\ submission_attempted'
                 /\ selected_options' = selected_options
                 /\ pointed_at' = pointed_at
                 /\ ~is_answered /\ ~is_answered'
                 /\ app_exit' = "running"
           /\ (Active /\ submission_attempted /\ key' = "ControlM"
                  /\ valid(CurrentVerdict))
                 => (is_answered' /\ app_exit' = "result")
         ]_vars
    /\ []((Active /\ submission_attempted) =>
              /\ ENABLED toggle /\ ENABLED invert /\ ENABLED all
              /\ ENABLED move_cursor_down /\ ENABLED move_cursor_up
              /\ ENABLED set_answer)

\* after a failed confirm an edit has made the selection acceptable
C9_Witness ==
    /\ Active
    /\ submission_attempted
    /\ key \in {"space", "i", "a"}
    /\ valid(CurrentVerdict)
    /\ validate /= "accept"

\* C10: an interrupt is taken in every running state and ends the session
\* with KeyboardInterrupt, without a validator call, without is_answered and
\* without a result.
C10_AbortBypassesValidation ==
    /\ [](Active => ENABLED abort)
    /\ [][ (Active /\ key' = "ControlC") =>
              /\ app_exit' = "KeyboardInterrupt"
              /\ validate_arg' = None
              /\ ~is_answered'
              /\ app_result' = None
         ]_vars

\* aborted on a selection the validator accepts and on one it rejects after
\* a failed confirm
C10_Witness ==
    /\ app_exit = "KeyboardInterrupt"
    /\ submission_attempted
    /\ ~valid(CurrentVerdict)

\* C11: the session is Active, Answered or Aborted; Answered and Aborted
\* exclude each other and are terminal: no step leaves them or changes the
\* state, is_answered never reverts, and the session ends with one outcome,
\* a result list (Answered) or a cancellation without a result (Aborted).
C11_TerminalStates ==
    /\ [](/\ app_exit \in {"running", "result", "KeyboardInterrupt"}
          /\ is_answered <=> app_exit = "result"
          /\ app_exit /= "result" => app_result = None)
    /\ [][ /\ ~Active => UNCHANGED vars
           /\ is_answered => is_answered'
           /\ Active' => Active
         ]_vars

\* an answered session that emitted a result under a validator that can reject
C11_Witness ==
    /\ app_exit = "result"
    /\ is_answered
    /\ app_result /= <<>>
    /\ validate = "at_least_two"

\* C12: on every validator call the verdict True passes and clears the
\* error; False fails with INVALID_INPUT, a string fails with that string
\* (the text stored once a confirm was attempted); no verdict but True lets
\* a confirm answer.
C12_VerdictMapping ==
    [][ validate_arg' /= None =>
          LET verdict == Verdict(validate, validate_arg'[1]) IN
            /\ verdict = PyTrue => error_message' = None
            /\ (verdict = PyTrue /\ key' = "ControlM") => is_answered'
            /\ verdict /= PyTrue => ~is_answered'
            /\ (verdict = PyFalse /\ submission_attempted')
                  => error_message' = <<"class:validation-toolbar", INVALID_INPUT>>
            /\ (verdict[1] = "str" /\ submission_attempted')
                  => error_message' = <<"class:validation-toolbar", verdict[2]>>
            /\ (verdict /= PyTrue /\ submission_attempted') => error_message' /= None
      ]_vars

\* a confirm was refused on a truthy verdict that is not True
C12_Witness ==
    /\ Active
    /\ key = "ControlM"
    /\ validate = "count"
    /\ Len(selected_options) >= 1
    /\ error_message = <<"class:validation-toolbar", ToString(Len(selected_options))>>

\* C15: toggle changes the membership of the pointed value only: a selected
\* value is removed, an unselected one is appended at the end; the other
\* values keep their order and the length changes by one.
C15_ToggleOneValue ==
    [][ key' = "space" =>
          LET v == value(pointed_at)
              sel == selected_options
              after == selected_options'
          IN /\ Contains(sel, v) =>
                   /\ ~Contains(after, v)
                   /\ after = SelectSeq(sel, LAMBDA x : x /= v)
                   /\ Len(after) = Len(sel) - 1
             /\ ~Contains(sel, v) =>
                   /\ after = sel \o <<v>>
                   /\ Len(after) = Len(sel) + 1
             /\ Range(after) \ {v} = Range(sel) \ {v}
      ]_vars

\* a toggle took a value out from between two others
C15_Witness ==
    /\ key = "space"
    /\ Len(selected_options) = 2
    /\ selected_options[1] < value(pointed_at)
    /\ value(pointed_at) < selected_options[2]

\* C17 as stated: after a toggle, invert or select-all whose validation
\* fails, error_message holds the failure text whatever submission_attempted.
C17_ErrorStoredUnconditionally ==
    [][ (key' \in {"space", "i", "a"}
           /\ ~valid(Verdict(validate, get_selected_values(selected_options'))))
          => error_message' /= None
      ]_vars

\* C17 amended: after a toggle, invert or select-all whose validation fails,
\* error_message holds the failure text when submission_attempted is true and
\* is None when it is false: the gate is applied when the error is stored.
C17_ErrorStoredOnceAttempted ==
    [][ key' \in {"space", "i", "a"} =>
          LET verdict == Verdict(validate, get_selected_values(selected_options')) IN
            /\ (~valid(verdict) /\ submission_attempted) =>
                  error_message' =
                     <<"class:validation-toolbar",
                       IF verdict = PyFalse THEN INVALID_INPUT ELSE verdict[2]>>
            /\ (~valid(verdict) /\ ~submission_attempted) => error_message' = None
      ]_vars

\* after a confirm attempt, an edit left a rejected selection and its text
C17_Witness ==
    /\ Active
    /\ submission_attempted
    /\ key \in {"space", "i", "a"}
    /\ ~valid(CurrentVerdict)
    /\ error_message /= None

\* the list pre-checks no disabled choice: the initial selection holds
\* values of enabled choices only
InitialSelectionSelectable ==
    \A i \in 1..choice_count :
        (choices[i].kind = "Choice" /\ choices[i].checked) => ~choices[i].disabled

\* C18: when the initial selection holds no duplicate and only values of
\* enabled, non-separator choices, so does every reachable selection.
C18_SelectionWellFormed ==
    InitialSelectionSelectable =>
        /\ \A j, k \in 1..Len(selected_options) :
              selected_options[j] = selected_options[k] => j = k
        /\ \A k \in 1..Len(selected_options) :
              \E i \in 1..choice_count :
                 /\ choices[i].kind = "Choice"
                 /\ ~choices[i].disabled
                 /\ value(i) = selected_options[k]

\* an inversion on a list with a disabled choice and a separator
C18_Witness ==
    /\ InitialSelectionSelectable
    /\ key = "i"
    /\ selected_options /= <<>>
    /\ \E i \in 1..choice_count : choices[i].kind = "Choice" /\ choices[i].disabled
    /\ \E i \in 1..choice_count : isinstance_Separator(i)

\* C19: in a running session error_message is present exactly when a
\* confirm was attempted and the validator rejects the current selection,
\* and then holds that verdict's text; an answered session has no error;
\* submission_attempted never returns to false.
C19_ErrorTracksSelection ==
    /\ [](/\ Active =>
               (error_message /= None <=> (submission_attempted /\ ~valid(CurrentVerdict)))
          /\ (Active /\ error_message /= None) =>
               error_message =
                  <<"class:validation-toolbar",
                    IF CurrentVerdict = PyFalse THEN INVALID_INPUT ELSE CurrentVerdict[2]>>
          /\ is_answered => error_message = None)
    /\ [][submission_attempted => submission_attempted']_vars

\* after a failed confirm an edit made the selection valid and cleared the error
C19_Witness ==
    /\ Active
    /\ submission_attempted
    /\ key \in {"space", "i", "a"}
    /\ valid(CurrentVerdict)
    /\ validate \in {"nonempty", "at_least_two"}
    /\ error_message = None

\* C20: a cursor movement changes pointed_at only and calls no validator; an
\* unbound key changes nothing; toggle, invert and select-all change neither
\* pointed_at nor submission_attempted nor is_answered.
C20_Frames ==
    [][ /\ key' \in {"Down", "Up"} =>
              /\ UNCHANGED <<choices, validate, selected_options, error_message,
                             submission_attempted, is_answered, app_exit, app_result>>
              /\ validate_arg' = None
        /\ key' = "Any" =>
              /\ UNCHANGED <<choices, validate, pointed_at, selected_options,
                             error_message, submission_attempted, is_answered,
                             app_exit, app_result>>
              /\ validate_arg' = None
        /\ key' \in {"space", "i", "a"} =>
              UNCHANGED <<choices, validate, pointed_at, submission_attempted,
                          is_answered, app_exit, app_result>>
      ]_vars

\* a cursor movement with an error on display
C20_Witness ==
    /\ key \in {"Down", "Up"}
    /\ error_message /= None
    /\ selected_options /= <<>>
    /\ \E i \in 1..choice_count : i /= pointed_at /\ Selectable(i)

HasSelectable == \E i \in 1..choice_count : Selectable(i)

\* C16: on a list with an enabled, non-separator Choice a cursor move takes
\* at most len(choices) single steps and then returns, on the entry the
\* handler is defined to reach; on a list without one the loop never
\* returns: after any number of steps the next step is taken.
C16_CursorLoopTermination ==
    /\ []((HasSelectable /\ loop.handler /= "idle") =>
             /\ loop.steps <= choice_count
             /\ loop.steps = choice_count => is_selection_valid(pointed_at)
             /\ is_selection_valid(pointed_at) => ENABLED (exit_down \/ exit_up))
    /\ []((~HasSelectable /\ loop.handler /= "idle" /\ loop.steps < MaxSteps) =>
             ENABLED (step_down \/ step_up))
    /\ [][ /\ (~HasSelectable /\ loop.handler /= "idle") => loop'.handler /= "idle"
           /\ (loop.handler = "down" /\ loop'.handler = "idle")
                 => pointed_at' = cursor_down(loop.start)
           /\ (loop.handler = "up" /\ loop'.handler = "idle")
                 => pointed_at' = cursor_up(loop.start)
         ]_vars

\* on a list of separators and disabled choices the loop is still running
\* after more steps than the list has entries
C16_Witness ==
    /\ ~HasSelectable
    /\ loop.handler /= "idle"
    /\ loop.steps > choice_count + 1
    /\ \E i \in 1..choice_count : isinstance_Separator(i)
    /\ \E i \in 1..choice_count : choices[i].kind = "Choice" /\ choices[i].disabled

\* C14 as stated: once answered, the summary follows from the number of
\* selected values alone: "done" for none, the bracketed title for one,
\* "done (N selections)" for N >= 2.
C14_SummaryByCountAlone ==
    [][ (render /\ is_answered) =>
          LET n == Len(selected_options) IN
            tokens'[3] =
               IF n = 0 THEN <<"class:answer", "done", 0>>
               ELSE IF n = 1
                    THEN <<"class:answer", "[{}]", PositionOf(selected_options[1])>>
                    ELSE <<"class:answer", "done ({} selections)", n>>
      ]_vars

\* C14 amended: once answered, the summary is "done" for no selected value,
\* "done (N selections)" for N >= 2, and for one selected value its title in
\* brackets when the title is plain text, the joined text of its spans
\* without brackets when the title is a list of styled spans; before the
\* answer the line is the question and the instruction hint; rendering
\* changes nothing but its output.
C14_Summary ==
    [][ render =>
          LET n == Len(selected_options) IN
            /\ Len(tokens') = 3
            /\ tokens'[1][1] = "class:qmark" /\ tokens'[2][1] = "class:question"
            /\ ~is_answered => tokens'[3] = <<"class:instruction", InstructionHint, 0>>
            /\ (is_answered /\ n = 0) => tokens'[3] = <<"class:answer", "done", 0>>
            /\ (is_answered /\ n = 1
                  /\ choices[PositionOf(selected_options[1])].title = "str")
                  => tokens'[3] =
                        <<"class:answer", "[{}]", PositionOf(selected_options[1])>>
            /\ (is_answered /\ n = 1
                  /\ choices[PositionOf(selected_options[1])].title = "list")
                  => tokens'[3] =
                        <<"class:answer", "join(spans)", PositionOf(selected_options[1])>>
            /\ (is_answered /\ n >= 2)
                  => tokens'[3] = <<"class:answer", "done ({} selections)", n>>
            /\ UNCHANGED <<choices, validate, pointed_at, selected_options,
                           error_message, submission_attempted, is_answered,
                           app_exit, app_result>>
      ]_vars

\* the summary of one selected choice whose title is a list of spans
C14_Witness ==
    /\ is_answered
    /\ Len(selected_options) = 1
    /\ tokens /= None
    /\ tokens[3][1] = "class:answer"
    /\ tokens[3][2] = "join(spans)"

====
